---- MODULE Spec2Model ----
(***************************************************************************)
(* The dispatch controller of src/src/elevator.ts (the object `game`) and  *)
(* the host simulation that drives it through the Floor and Elevator       *)
(* capability objects declared in the same file.                           *)
(*                                                                         *)
(* JavaScript values are records [type, val]: a number n is Num(n), the    *)
(* string holding the decimal digits of n is Str(n), and undefined is      *)
(* Undefined.  Arrays are sequences; the JavaScript index i is position    *)
(* i + 1 of the sequence.                                                  *)
(***************************************************************************)
EXTENDS Integers, Sequences, FiniteSets, TLC

\* ------------------------------------------------------------------ bounds
NumFloors == 4
NumElevators == 2
MaxRequests == 2
MaxPending == 4
MaxQueue == 2

FloorIds == 0 .. (NumFloors - 1)
ElevatorIds == 0 .. (NumElevators - 1)

\* ------------------------------------------------------ JavaScript values
Num(n) == [type |-> "number", val |-> n]
Str(n) == [type |-> "string", val |-> n]
Undefined == [type |-> "undefined", val |-> 0]
True == [type |-> "boolean", val |-> 1]

\* Whether a value given for goDirectly asks for priority.
IsTrue(v) == v.type = "boolean" /\ v.val = 1

\* ToNumber of a number or of a numeric string (the subtraction operator
\* applies it to both operands); never applied to undefined by the code.
ToNumber(v) == v.val

\* Math.abs
Abs(n) == IF n < 0 THEN -n ELSE n

\* The property keys a `for (const index in array)` loop enumerates: the
\* indices of the array, as strings, in ascending order.
ForInKeys(array) == [i \in 1 .. Len(array) |-> Str(i - 1)]

\* array[index]: the property key of a number and of its decimal string
\* are the same.
At(array, index) == array[ToNumber(index) + 1]

FloorEvent == {"up_button_pressed", "down_button_pressed"}
ElevatorEvent == {"idle", "floor_button_pressed", "passing_floor", "stopped_at_floor"}
Direction == {"up", "down"}

\* The Elevator and Floor objects the host hands to init and update.
HostElevators == [i \in 1 .. NumElevators |-> i - 1]
HostFloors == [i \in 1 .. NumFloors |-> i - 1]

VARIABLES
    goingUp, goingDown,     \* game.goingUp, game.goingDown
    elevators, floors,      \* game.elevators, game.floors
    floorRequests,          \* game.floorRequests
    floorHandlers,          \* per Floor and event: the callbacks registered by on()
    elevatorHandlers,       \* per Elevator and event: the callbacks registered by on()
    currentFloor,           \* per Elevator: what currentFloor() returns
    delivered,              \* the name of the event the host delivered last
    calls,                  \* the goToFloor calls made while it was handled
    destinationQueue,       \* per Elevator whose queue the behaviour follows:
                            \* its destinationQueue
    recording,              \* whether claimedBy is kept in this behaviour
    claimedBy,              \* per floor: the elevator an idle event sent there
                            \* since the floor was last called
    scenario                \* how far the run has followed the scripted scenario

vars == <<goingUp, goingDown, elevators, floors, floorRequests, floorHandlers,
          elevatorHandlers, currentFloor, delivered, calls, destinationQueue,
          recording, claimedBy, scenario>>

\* --------------------------------------------------------- the comparator
\* The comparator with the distances taken without Math.abs.
compareFnSigned(c, a, b) ==
    IF (c - ToNumber(a)) > (c - ToNumber(b)) THEN 1 ELSE -1

\* The comparator of onElevatorIdle's sort, with c the value of
\* this.elevators[index].currentFloor().
compareFn(c, a, b) ==
    LET aPrime == Abs(c - ToNumber(a))
        bPrime == Abs(c - ToNumber(b))
    IN IF aPrime > bPrime THEN 1 ELSE -1

\* ------------------------------------------------- Array.prototype.sort
\* Array.prototype.sort(comparefn) as the engine that runs the code (V8,
\* Node.js) computes it for an array of fewer than 64 elements: the first
\* run is counted and, when descending, reversed; the remaining elements
\* are placed by binary insertion.  Positions are the engine's (0-based).
RECURSIVE RunEnd(_, _, _, _)
RunEnd(array, c, idx, isDescending) ==
    IF idx >= Len(array) THEN idx
    ELSE LET order == compareFn(c, array[idx + 1], array[idx])
         IN IF (isDescending /\ order >= 0) \/ (~isDescending /\ order < 0)
            THEN idx
            ELSE RunEnd(array, c, idx + 1, isDescending)

ReverseRange(array, n) ==
    [i \in 1 .. Len(array) |-> IF i <= n THEN array[n + 1 - i] ELSE array[i]]

\* CountAndMakeRun: the array after the first run is made ascending, and
\* the run's length.
CountAndMakeRun(array, c) ==
    LET isDescending == compareFn(c, array[2], array[1]) < 0
        runLength == RunEnd(array, c, 2, isDescending)
    IN [array |-> IF isDescending THEN ReverseRange(array, runLength) ELSE array,
        runLength |-> runLength]

RECURSIVE BinarySearch(_, _, _, _, _)
BinarySearch(array, c, pivot, left, right) ==
    IF left >= right THEN left
    ELSE LET mid == left + ((right - left) \div 2)
         IN IF compareFn(c, pivot, array[mid + 1]) < 0
            THEN BinarySearch(array, c, pivot, left, mid)
            ELSE BinarySearch(array, c, pivot, mid + 1, right)

RECURSIVE BinaryInsertionSort(_, _, _)
BinaryInsertionSort(array, c, start) ==
    IF start >= Len(array) THEN array
    ELSE LET pivot == array[start + 1]
             left == BinarySearch(array, c, pivot, 0, start)
             moved == [i \in 1 .. Len(array) |->
                         IF i - 1 < left THEN array[i]
                         ELSE IF i - 1 = left THEN pivot
                         ELSE IF i - 1 <= start THEN array[i - 1]
                         ELSE array[i]]
         IN BinaryInsertionSort(moved, c, start + 1)

ArraySort(array, c) ==
    IF Len(array) < 2 THEN array
    ELSE LET run == CountAndMakeRun(array, c)
         IN BinaryInsertionSort(run.array, c, run.runLength)

\* ------------------------------------------------- host and controller
\* g holds the fields of `game` the handlers read and write, the host
\* state their calls read, the goToFloor calls they make, and `nested`:
\* the elevators whose idle event the host emits synchronously from
\* inside the next goToFloor call (none in an ordinary delivery).
RECURSIVE goToFloor(_, _, _, _)
RECURSIVE onElevatorIdle(_, _)
RECURSIVE TriggerElevator(_, _, _, _, _)

\* Elevator.goToFloor(targetFloor, goDirectly): the host is asked to queue
\* the floor on that elevator; the call is recorded with its arguments.
goToFloor(g, elevator, targetFloor, goDirectly) ==
    LET called == [g EXCEPT !.calls = Append(@, [elevator |-> elevator,
                                                 targetFloor |-> targetFloor,
                                                 goDirectly |-> goDirectly]),
                            !.nested = <<>>]
    IN IF g.nested = <<>> THEN called
       ELSE TriggerElevator(called, "idle",
                            g.elevatorHandlers[Head(g.nested)]["idle"],
                            Undefined, "up")

\* An idle handler that sorts the pending requests before it tests whether
\* any elevator is cached.
onElevatorIdleSortFirst(g, index) ==
    LET sorted == ArraySort(g.floorRequests, g.currentFloor[ToNumber(index)])
        nextFloor == IF Len(sorted) = 0 THEN Undefined ELSE sorted[1]
    IN IF Len(g.elevators) = 0 THEN [g EXCEPT !.floorRequests = sorted]
       ELSE goToFloor([g EXCEPT !.floorRequests = sorted],
                      At(g.elevators, index), nextFloor, Undefined)

onElevatorIdle(g, index) ==
    IF Len(g.elevators) = 0 THEN g
    ELSE LET c == g.currentFloor[At(g.elevators, index)]
             sorted == ArraySort(g.floorRequests, c)
             nextFloor == IF Len(sorted) = 0 THEN Undefined ELSE sorted[1]
         IN goToFloor([g EXCEPT !.floorRequests = sorted],
                      At(g.elevators, index), nextFloor, Undefined)

\* A floor_button_pressed handler that asks for the floor with priority.
onElevatorFloorButtonPressedDirectly(g, index, floorNumber) ==
    IF Len(g.elevators) = 0 THEN g
    ELSE goToFloor(g, At(g.elevators, index), floorNumber, True)

\* The array filter() returns is dropped: floorRequests is not assigned.
\* With no elevator cached, this.elevators[index] is undefined and the call
\* throws before anything is changed.
onElevatorFloorButtonPressed(g, index, floorNumber) ==
    IF Len(g.elevators) = 0 THEN g
    ELSE LET called == goToFloor(g, At(g.elevators, index), floorNumber, Undefined)
             filtered == SelectSeq(g.floorRequests, LAMBDA e : e # floorNumber)
         IN called

\* A passing_floor handler that takes the floor passed off the pending
\* requests.
onElevatorPassingFloorPickup(g, index, floorNumber, direction) ==
    [g EXCEPT !.floorRequests =
        SelectSeq(@, LAMBDA e : ToNumber(e) # ToNumber(floorNumber))]

onElevatorPassingFloor(g, index, floorNumber, direction) == g

onElevatorStoppedAtFloor(g, index, floorNumber) == g

\* A floor call handler that also sends the first cached elevator to the
\* floor.
onFloorRequestDispatch(g, floorNumber) ==
    LET recorded == [g EXCEPT !.floorRequests = Append(@, floorNumber)]
    IN IF Len(g.elevators) = 0 THEN recorded
       ELSE goToFloor(recorded, g.elevators[1], floorNumber, Undefined)

onFloorRequest(g, floorNumber) ==
    [g EXCEPT !.floorRequests = Append(@, floorNumber)]

\* An init whose closures share one loop variable: every callback holds the
\* last index of its loop.
initSharedIndex(elevs, flrs) ==
    [floorHandlers |->
        [f \in FloorIds |-> [ev \in FloorEvent |->
            IF \E i \in 1 .. Len(flrs) : flrs[i] = f
            THEN <<ForInKeys(flrs)[Len(flrs)]>>
            ELSE <<>>]],
     elevatorHandlers |->
        [e \in ElevatorIds |-> [ev \in ElevatorEvent |->
            IF \E i \in 1 .. Len(elevs) : elevs[i] = e
            THEN <<ForInKeys(elevs)[Len(elevs)]>>
            ELSE <<>>]]]

\* init: the callbacks registered on every floor and elevator; each one is
\* the index its closure captured.
init(elevs, flrs) ==
    [floorHandlers |->
        [f \in FloorIds |-> [ev \in FloorEvent |->
            IF \E i \in 1 .. Len(flrs) : flrs[i] = f
            THEN <<ForInKeys(flrs)[CHOOSE i \in 1 .. Len(flrs) : flrs[i] = f]>>
            ELSE <<>>]],
     elevatorHandlers |->
        [e \in ElevatorIds |-> [ev \in ElevatorEvent |->
            IF \E i \in 1 .. Len(elevs) : elevs[i] = e
            THEN <<ForInKeys(elevs)[CHOOSE i \in 1 .. Len(elevs) : elevs[i] = e]>>
            ELSE <<>>]]]

\* An update that also drops the pending requests.
updateAndForget(g, dt, elevs, flrs) ==
    [g EXCEPT !.elevators = elevs, !.floors = flrs, !.floorRequests = <<>>]

update(g, dt, elevs, flrs) ==
    [g EXCEPT !.elevators = elevs, !.floors = flrs]

\* ------------------------------------------------------ event delivery
Game(nested) ==
    [elevators |-> elevators, floors |-> floors, floorRequests |-> floorRequests,
     currentFloor |-> currentFloor, elevatorHandlers |-> elevatorHandlers,
     calls |-> <<>>, nested |-> nested]

\* A floor's callbacks, run in the order they were registered.
RECURSIVE TriggerFloor(_, _)
TriggerFloor(g, handlers) ==
    IF handlers = <<>> THEN g
    ELSE TriggerFloor(onFloorRequest(g, Head(handlers)), Tail(handlers))

\* An elevator's callbacks for one event, run in the order they were
\* registered.
TriggerElevator(g, ev, handlers, floorNumber, direction) ==
    IF handlers = <<>> THEN g
    ELSE LET index == Head(handlers)
             h == CASE ev = "idle" -> onElevatorIdle(g, index)
                    [] ev = "floor_button_pressed" ->
                          onElevatorFloorButtonPressed(g, index, floorNumber)
                    [] ev = "passing_floor" ->
                          onElevatorPassingFloor(g, index, floorNumber, direction)
                    [] ev = "stopped_at_floor" ->
                          onElevatorStoppedAtFloor(g, index, floorNumber)
         IN TriggerElevator(h, ev, Tail(handlers), floorNumber, direction)

\* on() has not been called on any floor or elevator.
NoFloorHandlers == [f \in FloorIds |-> [ev \in FloorEvent |-> <<>>]]
NoElevatorHandlers == [e \in ElevatorIds |-> [ev \in ElevatorEvent |-> <<>>]]

Initialized == floorHandlers # NoFloorHandlers

\* The floors that are pending in the array fr.
PendingFloors(fr) == {ToNumber(fr[i]) : i \in 1 .. Len(fr)}

\* ---------------------------------------------- the destination queues
\* What goToFloor does to the destinationQueue of the elevator it is called
\* on: the floor is queued, in front of the queued floors when goDirectly
\* is true and behind them otherwise.
Enqueue(queue, targetFloor, goDirectly) ==
    IF IsTrue(goDirectly) THEN <<targetFloor>> \o queue
    ELSE Append(queue, targetFloor)

\* The queues after the goToFloor calls `made`, in the order they were
\* made.
RECURSIVE Queued(_, _)
Queued(queues, made) ==
    IF made = <<>> THEN queues
    ELSE LET call == Head(made)
         IN Queued(IF call.elevator \in DOMAIN queues
                   THEN [queues EXCEPT ![call.elevator] =
                            Enqueue(@, call.targetFloor, call.goDirectly)]
                   ELSE queues,
                   Tail(made))

\* No elevator's queue is followed; every elevator's queue is, from empty.
NoQueues == [e \in {} |-> <<>>]
EmptyQueues == [e \in ElevatorIds |-> <<>>]

\* ------------------------------------------------------------ observers
\* claimedBy after the calls an idle event made: each floor it sent an
\* elevator to is claimed by that elevator.
RECURSIVE Claims(_, _)
Claims(claimed, idleCalls) ==
    IF idleCalls = <<>> THEN claimed
    ELSE LET call == Head(idleCalls)
         IN Claims(IF call.targetFloor.type = "undefined" THEN claimed
                   ELSE [claimed EXCEPT ![ToNumber(call.targetFloor)] = {call.elevator}],
                   Tail(idleCalls))

\* claimedBy after the event `name` of floor or elevator `source`, whose
\* handlers ended in g: a call for a floor ends the claim on it.
NextClaimedBy(name, source, g) ==
    IF ~recording THEN claimedBy
    ELSE IF name \in FloorEvent THEN [claimedBy EXCEPT ![source] = {}]
    ELSE IF name = "idle" THEN Claims(claimedBy, g.calls)
    ELSE claimedBy

\* The scripted run: a call at floor 3, elevator 0 idle at floor 0, a call
\* at floor 1, elevator 0 idle at floor 3, on a controller that has been
\* initialised and updated and has nothing pending.  "off" once the run has
\* left the script.
NextScenario(name, source, nested) ==
    CASE name \in {"init", "update"} -> scenario
      [] scenario = "start" /\ name = "up_button_pressed" /\ source = 3
            /\ Len(elevators) > 0 /\ floorRequests = <<>> /\ currentFloor[0] = 0
            -> "called 3"
      [] scenario = "called 3" /\ name = "idle" /\ source = 0 /\ nested = <<>>
            /\ currentFloor[0] = 0 -> "idle at 0"
      [] scenario = "idle at 0" /\ name = "down_button_pressed" /\ source = 1
            -> "called 1"
      [] scenario = "called 1" /\ name = "idle" /\ source = 0 /\ nested = <<>>
            /\ currentFloor[0] = 3 -> "idle at 3"
      [] OTHER -> "off"

\* The state after the handlers of event `name` of `source` ran to
\* completion, ending in g.
Delivered(name, source, nested, g) ==
    /\ delivered' = name
    /\ elevators' = g.elevators
    /\ floors' = g.floors
    /\ floorRequests' = g.floorRequests
    /\ calls' = g.calls
    /\ destinationQueue' = Queued(destinationQueue, g.calls)
    /\ claimedBy' = NextClaimedBy(name, source, g)
    /\ scenario' = NextScenario(name, source, nested)
    /\ UNCHANGED <<goingUp, goingDown, floorHandlers, elevatorHandlers,
                   currentFloor, recording>>

\* -------------------------------------------------------------- actions
InitGame ==
    /\ goingUp = 0
    /\ goingDown = 0
    /\ elevators = <<>>
    /\ floors = <<>>
    /\ floorRequests = <<>>
    /\ floorHandlers = NoFloorHandlers
    /\ elevatorHandlers = NoElevatorHandlers
    /\ currentFloor = [e \in ElevatorIds |-> 0]
    /\ delivered = "none"
    /\ calls = <<>>
    /\ claimedBy = [f \in FloorIds |-> {}]
    /\ scenario = "start"

Init == InitGame /\ recording = FALSE /\ destinationQueue = NoQueues

InitRecording == InitGame /\ recording = TRUE /\ destinationQueue = NoQueues

\* The host starts the simulation: it calls init once.
StartSimulation ==
    /\ ~Initialized
    /\ floorHandlers' = init(HostElevators, HostFloors).floorHandlers
    /\ elevatorHandlers' = init(HostElevators, HostFloors).elevatorHandlers
    /\ delivered' = "init"
    /\ calls' = <<>>
    /\ scenario' = NextScenario("init", 0, <<>>)
    /\ UNCHANGED <<goingUp, goingDown, elevators, floors, floorRequests,
                   currentFloor, destinationQueue, recording, claimedBy>>

DtValues == {1, 2}

\* A simulation tick: the host calls update.
Tick(dt) ==
    /\ Initialized
    /\ Delivered("update", 0, <<>>, update(Game(<<>>), dt, HostElevators, HostFloors))

\* A passenger presses the up or down button of floor f.
PressFloorButton(f, ev) ==
    /\ Initialized
    /\ Len(floorRequests) < MaxRequests
    /\ Delivered(ev, f, <<>>, TriggerFloor(Game(<<>>), floorHandlers[f][ev]))

\* Elevator e reports idle.
EmitIdle(e) ==
    /\ Initialized
    /\ Delivered("idle", e, <<>>,
                 TriggerElevator(Game(<<>>), "idle", elevatorHandlers[e]["idle"],
                                 Undefined, "up"))

\* Elevator e reports idle, and the host emits the idle event of elevator
\* `other` from inside the goToFloor call the handler makes.
EmitIdleReentrant(e, other) ==
    /\ Initialized
    /\ other # e
    /\ Delivered("idle", e, <<other>>,
                 TriggerElevator(Game(<<other>>), "idle", elevatorHandlers[e]["idle"],
                                 Undefined, "up"))

\* A passenger in elevator e presses the button of floor n.
EmitFloorButtonPressed(e, n) ==
    /\ Initialized
    /\ Delivered("floor_button_pressed", e, <<>>,
                 TriggerElevator(Game(<<>>), "floor_button_pressed",
                                 elevatorHandlers[e]["floor_button_pressed"],
                                 Num(n), "up"))

\* Elevator e passes the floor it is at, going up or down.
EmitPassingFloor(e, direction) ==
    /\ Initialized
    /\ Delivered("passing_floor", e, <<>>,
                 TriggerElevator(Game(<<>>), "passing_floor",
                                 elevatorHandlers[e]["passing_floor"],
                                 Num(currentFloor[e]), direction))

\* Elevator e stops at the floor it is at.
EmitStoppedAtFloor(e) ==
    /\ Initialized
    /\ Delivered("stopped_at_floor", e, <<>>,
                 TriggerElevator(Game(<<>>), "stopped_at_floor",
                                 elevatorHandlers[e]["stopped_at_floor"],
                                 Num(currentFloor[e]), "up"))

\* The simulation moves elevator e one floor up or down, to floor n.
ElevatorMoves(e, n) ==
    /\ n \in {currentFloor[e] - 1, currentFloor[e] + 1}
    /\ currentFloor' = [currentFloor EXCEPT ![e] = n]
    /\ UNCHANGED <<goingUp, goingDown, elevators, floors, floorRequests,
                   floorHandlers, elevatorHandlers, delivered, calls,
                   destinationQueue, recording, claimedBy, scenario>>

Next ==
    \/ StartSimulation
    \/ \E dt \in DtValues : Tick(dt)
    \/ \E f \in FloorIds, ev \in FloorEvent : PressFloorButton(f, ev)
    \/ \E e \in ElevatorIds : EmitIdle(e)
    \/ \E e \in ElevatorIds, n \in FloorIds : EmitFloorButtonPressed(e, n)
    \/ \E e \in ElevatorIds, d \in Direction : EmitPassingFloor(e, d)
    \/ \E e \in ElevatorIds : EmitStoppedAtFloor(e)
    \/ \E e \in ElevatorIds, n \in FloorIds : ElevatorMoves(e, n)

Spec == Init /\ [][Next]_vars

\* The same system, with claimedBy kept.
SpecRecording == InitRecording /\ [][Next]_vars

\* The same system on a host whose goToFloor may emit another elevator's
\* idle event before it returns.
NextReentrant ==
    \/ Next
    \/ \E e \in ElevatorIds, other \in ElevatorIds : EmitIdleReentrant(e, other)

SpecReentrant == Init /\ [][NextReentrant]_vars

\* ------------------------------------------- with the queues followed
\* The same controller on a host whose elevators' queues are followed, up
\* to the point where the elevators set off.  The queues only grow, and
\* MaxQueue bounds how far they are followed: an idle event comes while
\* fewer than MaxQueue floors are queued on the elevator, and an in-cabin
\* press while at most MaxQueue are, so that a press also finds MaxQueue
\* floors queued ahead of it.
InitQueue == InitGame /\ recording = FALSE /\ destinationQueue = EmptyQueues

NextQueue ==
    \/ StartSimulation
    \/ \E dt \in DtValues : Tick(dt)
    \/ \E f \in FloorIds, ev \in FloorEvent : PressFloorButton(f, ev)
    \/ \E e \in ElevatorIds :
          Len(destinationQueue[e]) < MaxQueue /\ EmitIdle(e)
    \/ \E e \in ElevatorIds, n \in FloorIds :
          Len(destinationQueue[e]) <= MaxQueue /\ EmitFloorButtonPressed(e, n)

SpecQueue == InitQueue /\ [][NextQueue]_vars

\* ---------------------------------------------- the selection by itself
\* Every array of at most MaxPending floor calls, as the floor buttons can
\* have pushed them, with the controller initialised and updated and the
\* elevators together at any one floor; then idle events.
RECURSIVE ArraysUpTo(_)
ArraysUpTo(n) ==
    IF n = 0 THEN {<<>>}
    ELSE LET shorter == ArraysUpTo(n - 1)
         IN shorter \cup {Append(a, Str(f)) : a \in {b \in shorter : Len(b) = n - 1},
                                                f \in FloorIds}

InitNearest ==
    /\ goingUp = 0
    /\ goingDown = 0
    /\ elevators = HostElevators
    /\ floors = HostFloors
    /\ floorRequests \in ArraysUpTo(MaxPending)
    /\ floorHandlers = init(HostElevators, HostFloors).floorHandlers
    /\ elevatorHandlers = init(HostElevators, HostFloors).elevatorHandlers
    /\ \E c \in FloorIds : currentFloor = [e \in ElevatorIds |-> c]
    /\ delivered = "update"
    /\ calls = <<>>
    /\ destinationQueue = NoQueues
    /\ recording = FALSE
    /\ claimedBy = [f \in FloorIds |-> {}]
    /\ scenario = "off"

NextNearest == \E e \in ElevatorIds : EmitIdle(e)

SpecNearest == InitNearest /\ [][NextNearest]_vars

\* ------------------------------------------------ with floor calls over
\* The controller initialised and updated, with any floor calls the floor
\* buttons can have left pending and no further floor call: the elevators
\* move and every elevator's idle event keeps being delivered.
InitDraining == InitNearest /\ Len(floorRequests) <= MaxRequests

NextDraining ==
    \/ \E e \in ElevatorIds : EmitIdle(e)
    \/ \E e \in ElevatorIds, n \in FloorIds : ElevatorMoves(e, n)

SpecDraining ==
    /\ InitDraining
    /\ [][NextDraining]_vars
    /\ \A e \in ElevatorIds : WF_vars(EmitIdle(e))

\* ================================================================ claims
\* The steps that deliver one event (the event's name is compared first:
\* no other step leaves it in `delivered`).
IdleStep(e) == delivered' = "idle" /\ EmitIdle(e)
PassingStep(e) == delivered' = "passing_floor" /\ \E d \in Direction : EmitPassingFloor(e, d)
StoppedStep(e) == delivered' = "stopped_at_floor" /\ EmitStoppedAtFloor(e)

\* An idle step of elevator e whose handler got past its first test.
IdleRan(e) == IdleStep(e) /\ Len(elevators) > 0

\* The floor a goToFloor call named, when it named one.
Named(call) == call.targetFloor.type # "undefined"
FloorOf(call) == ToNumber(call.targetFloor)

\* C1 (claim exclusivity): once an idle event has sent elevator A to floor
\* f, no idle event of another elevator B is sent to f unless f was called
\* again in between.
ClaimExclusivity ==
    [][\A e \in ElevatorIds : IdleStep(e) =>
          \A i \in 1 .. Len(calls') :
              Named(calls'[i]) => claimedBy[FloorOf(calls'[i])] \subseteq {e}]_vars

\* C2 (removal on assignment): after an idle event handled with requests
\* pending, the floor passed to goToFloor is no longer pending and every
\* other pending floor still is.
RemovalOnAssignment ==
    [][\A e \in ElevatorIds : (IdleRan(e) /\ floorRequests # <<>>) =>
          /\ Len(calls') = 1
          /\ Named(calls'[1])
          /\ PendingFloors(floorRequests') =
                 PendingFloors(floorRequests) \ {FloorOf(calls'[1])}]_vars

\* C3 (idempotent insertion): no floor is pending more than once, and a
\* floor call for a floor that is already pending leaves the pending
\* requests unchanged.
NoFloorPendingTwice ==
    \A i, j \in 1 .. Len(floorRequests) :
        ToNumber(floorRequests[i]) = ToNumber(floorRequests[j]) => i = j

IdempotentInsertion ==
    /\ []NoFloorPendingTwice
    /\ [][\A f \in FloorIds, ev \in FloorEvent :
            (PressFloorButton(f, ev) /\ f \in PendingFloors(floorRequests))
                => floorRequests' = floorRequests]_vars

\* C4 (idle with nothing pending is a no-op): an idle event handled with
\* no request pending makes no call on any elevator and leaves the pending
\* requests as they are.
IdleWithNothingPendingIsNoOp ==
    [][\A e \in ElevatorIds : (IdleStep(e) /\ floorRequests = <<>>) =>
          calls' = <<>> /\ floorRequests' = floorRequests]_vars

\* C5 (in-cabin interrupt reconciliation): when floor n is pending and the
\* button for n is pressed in elevator e, afterwards n is no longer pending
\* and e was sent to n by exactly one goToFloor call.
InCabinReconciliation ==
    [][\A e \in ElevatorIds, n \in FloorIds :
          (EmitFloorButtonPressed(e, n) /\ Len(elevators) > 0
             /\ n \in PendingFloors(floorRequests)) =>
                /\ n \notin PendingFloors(floorRequests')
                /\ Len(calls') = 1
                /\ calls'[1].elevator = e
                /\ Named(calls'[1]) /\ FloorOf(calls'[1]) = n]_vars

\* C6 (nearest correctness): the floor an idle event passes to goToFloor,
\* with requests pending, is a pending floor whose distance from the idle
\* elevator's current floor is the least of all pending floors.
NearestCorrectness ==
    [][\A e \in ElevatorIds : (IdleStep(e) /\ floorRequests # <<>>) =>
          \A i \in 1 .. Len(calls') :
              /\ calls'[i].elevator = e
              /\ Named(calls'[i])
              /\ FloorOf(calls'[i]) \in PendingFloors(floorRequests)
              /\ \A f \in PendingFloors(floorRequests) :
                    Abs(FloorOf(calls'[i]) - currentFloor[e]) <= Abs(f - currentFloor[e])]_vars

\* An idle event chose among three or more pending floors, at least one of
\* them farther from the elevator than the one it chose.
NearestWitness ==
    /\ delivered = "idle"
    /\ Len(calls) = 1
    /\ Len(floorRequests) >= 3
    /\ Named(calls[1])
    /\ \E f \in PendingFloors(floorRequests) :
          Abs(FloorOf(calls[1]) - currentFloor[calls[1].elevator])
              < Abs(f - currentFloor[calls[1].elevator])

\* The arrays that hold the same floor calls as fr, in any order.
Count(fr, v) == Cardinality({i \in 1 .. Len(fr) : fr[i] = v})
Arrangements(fr) ==
    {a \in [1 .. Len(fr) -> {fr[i] : i \in 1 .. Len(fr)}] :
        \A i \in 1 .. Len(fr) : Count(a, fr[i]) = Count(fr, fr[i])}

\* C7 (tie-break determinism): the floor an idle event chooses depends
\* only on which floors are pending and on the elevator's current floor:
\* had the same calls arrived in any other order, the choice would be the
\* same.
TieBreakDeterminism ==
    [][\A e \in ElevatorIds : (IdleRan(e) /\ floorRequests # <<>>) =>
          \A a \in Arrangements(floorRequests) :
              /\ Len(calls') = 1
              /\ Named(calls'[1])
              /\ ToNumber(ArraySort(a, currentFloor[e])[1]) = FloorOf(calls'[1])]_vars

\* The calls made while the last event was handled, as pairs of elevator
\* and floor.
Commands == [i \in 1 .. Len(calls) |->
                <<calls[i].elevator,
                  IF Named(calls[i]) THEN FloorOf(calls[i]) ELSE NumFloors>>]

\* C8 (end-to-end scenario): after a call at floor 3, elevator 0 idle at
\* floor 0, a call at floor 1 and elevator 0 idle at floor 3, the commands
\* are goToFloor(3) and then goToFloor(1) on elevator 0, and the pending
\* floors after the four events are {3}, {}, {1}, {}.
EndToEndScenario ==
    /\ scenario = "called 3" =>
          PendingFloors(floorRequests) = {3} /\ Commands = <<>>
    /\ scenario = "idle at 0" =>
          PendingFloors(floorRequests) = {} /\ Commands = << <<0, 3>> >>
    /\ scenario = "called 1" =>
          PendingFloors(floorRequests) = {1} /\ Commands = <<>>
    /\ scenario = "idle at 3" =>
          PendingFloors(floorRequests) = {} /\ Commands = << <<0, 1>> >>

\* C9 (remove-then-command ordering): an idle event that the host emits
\* from inside the goToFloor call of another idle event's handler finds the
\* floor of that call no longer pending, and is not sent to it.
RemoveThenCommand ==
    [][\A e \in ElevatorIds, other \in ElevatorIds :
          (EmitIdleReentrant(e, other) /\ Len(elevators) > 0
             /\ floorRequests # <<>>) =>
                /\ Len(calls') = 2
                /\ calls'[1].elevator = e
                /\ calls'[2].elevator = other
                /\ Named(calls'[1])
                /\ Named(calls'[2]) => FloorOf(calls'[2]) # FloorOf(calls'[1])]_vars

\* C10 (passing_floor and stopped_at_floor have no effect): handling
\* either event leaves the pending requests as they are and makes no call
\* on any elevator.
PassingAndStoppingHaveNoEffect ==
    [][\A e \in ElevatorIds :
          (PassingStep(e) \/ StoppedStep(e)) =>
              floorRequests' = floorRequests /\ calls' = <<>>]_vars

\* An elevator passed or stopped at a floor while it stood at a pending
\* floor, and that floor is still pending.
PassingWitness ==
    /\ delivered \in {"passing_floor", "stopped_at_floor"}
    /\ calls = <<>>
    /\ \E e \in ElevatorIds : currentFloor[e] \in PendingFloors(floorRequests)

\* The steps that deliver update, a floor button event, and an in-cabin
\* button event.
UpdateStep(dt) == delivered' = "update" /\ Tick(dt)
FloorStep(f, ev) == delivered' = ev /\ PressFloorButton(f, ev)
CabinStep(e, n) == delivered' = "floor_button_pressed" /\ EmitFloorButtonPressed(e, n)

\* C11 (update only replaces the cached collections): update leaves the
\* pending requests, the registered callbacks and the two counters as they
\* are, makes no call on any elevator, and leaves the collections it was
\* passed in game.elevators and game.floors, for every dt.
UpdateOnlyReplacesCollections ==
    [][\A dt \in DtValues : UpdateStep(dt) =>
          /\ elevators' = HostElevators
          /\ floors' = HostFloors
          /\ floorRequests' = floorRequests
          /\ calls' = <<>>
          /\ floorHandlers' = floorHandlers
          /\ elevatorHandlers' = elevatorHandlers
          /\ goingUp' = goingUp
          /\ goingDown' = goingDown]_vars

\* update ran with floor calls pending, and they are still pending.
UpdateWitness ==
    /\ delivered = "update"
    /\ elevators = HostElevators
    /\ Len(floorRequests) = MaxRequests

\* C12 (event routing after init): every floor has one callback for each
\* button event and every elevator one callback for each of its four
\* events; a button event of floor f appends one call, for floor f, to the
\* pending requests; the goToFloor calls of an idle or floor_button_pressed
\* event of elevator e are made on elevator e, and it is one call once the
\* elevators are cached.
OneHandlerEach ==
    Initialized =>
        /\ \A f \in FloorIds, ev \in FloorEvent : Len(floorHandlers[f][ev]) = 1
        /\ \A e \in ElevatorIds, ev \in ElevatorEvent : Len(elevatorHandlers[e][ev]) = 1

EventRouting ==
    /\ []OneHandlerEach
    /\ [][\A f \in FloorIds, ev \in FloorEvent : FloorStep(f, ev) =>
              /\ Len(floorRequests') = Len(floorRequests) + 1
              /\ SubSeq(floorRequests', 1, Len(floorRequests)) = floorRequests
              /\ ToNumber(floorRequests'[Len(floorRequests')]) = f]_vars
    /\ [][\A e \in ElevatorIds :
              (IdleStep(e) \/ \E n \in FloorIds : CabinStep(e, n)) =>
                  /\ \A i \in 1 .. Len(calls') : calls'[i].elevator = e
                  /\ Len(elevators) > 0 => Len(calls') = 1]_vars

\* Elevator 0, which is not the last elevator, was sent to a floor by its
\* in-cabin button while calls for two different floors, the second one not
\* the last floor, were pending.
RoutingWitness ==
    /\ delivered = "floor_button_pressed"
    /\ Len(calls) = 1
    /\ calls[1].elevator = 0
    /\ Len(floorRequests) = 2
    /\ ToNumber(floorRequests[1]) # ToNumber(floorRequests[2])
    /\ ToNumber(floorRequests[2]) # NumFloors - 1

\* What an in-cabin press for floor n of elevator e is to do: one goToFloor
\* call, on e, for n, with goDirectly not given; n is queued on e behind
\* the floors already queued there, which keep their places, and every
\* other elevator's queue is as it was.
AppendsWithoutPriority(e, n) ==
    /\ calls' = <<[elevator |-> e, targetFloor |-> Num(n),
                   goDirectly |-> Undefined]>>
    /\ Len(destinationQueue'[e]) = Len(destinationQueue[e]) + 1
    /\ SubSeq(destinationQueue'[e], 1, Len(destinationQueue[e])) = destinationQueue[e]
    /\ destinationQueue'[e][Len(destinationQueue'[e])] = Num(n)
    /\ \A other \in ElevatorIds \ {e} :
          destinationQueue'[other] = destinationQueue[other]

\* C13 (an in-cabin press appends without priority): a floor_button_pressed
\* event for floor n of elevator e makes one goToFloor call, on e, for n,
\* with goDirectly not given; n is queued on e behind the floors already
\* queued there, which keep their order, and no other elevator's queue
\* changes.
CabinPressAppends ==
    [][\A e \in ElevatorIds, n \in FloorIds :
          CabinStep(e, n) => AppendsWithoutPriority(e, n)]_vars

\* The same for the presses that come once update has cached the
\* elevators.
CabinPressAppendsOnceCached ==
    [][\A e \in ElevatorIds, n \in FloorIds :
          (CabinStep(e, n) /\ Len(elevators) > 0) =>
              AppendsWithoutPriority(e, n)]_vars

\* An in-cabin press was queued on an elevator behind MaxQueue floors, the
\* first two of them different and neither the floor pressed, while another
\* elevator had a floor queued too.
CabinPressWitness ==
    /\ delivered = "floor_button_pressed"
    /\ Len(calls) = 1
    /\ LET e == calls[1].elevator
           queue == destinationQueue[e]
       IN /\ Len(queue) = MaxQueue + 1
          /\ queue[Len(queue)] = calls[1].targetFloor
          /\ queue[1].type # "undefined" /\ queue[2].type # "undefined"
          /\ ToNumber(queue[1]) # ToNumber(queue[2])
          /\ ToNumber(queue[1]) # ToNumber(calls[1].targetFloor)
          /\ ToNumber(queue[2]) # ToNumber(calls[1].targetFloor)
          /\ \E other \in ElevatorIds \ {e} : destinationQueue[other] # <<>>

\* C14 (a floor call only records the call): an up or down button event of
\* floor f appends one call for f to the pending requests, makes no call on
\* any elevator and leaves every elevator's queue as it is; the up and the
\* down event of a floor have the same effect.
UpAndDownAlike ==
    \A f \in FloorIds :
        TriggerFloor(Game(<<>>), floorHandlers[f]["up_button_pressed"])
            = TriggerFloor(Game(<<>>), floorHandlers[f]["down_button_pressed"])

FloorCallOnlyRecords ==
    /\ []UpAndDownAlike
    /\ [][\A f \in FloorIds, ev \in FloorEvent : FloorStep(f, ev) =>
              /\ calls' = <<>>
              /\ destinationQueue' = destinationQueue
              /\ Len(floorRequests') = Len(floorRequests) + 1
              /\ SubSeq(floorRequests', 1, Len(floorRequests)) = floorRequests
              /\ ToNumber(floorRequests'[Len(floorRequests')]) = f]_vars

\* A floor was called while, of the cached elevators, one had nothing
\* queued and another had a floor queued.
FloorCallWitness ==
    /\ delivered \in FloorEvent
    /\ calls = <<>>
    /\ Len(elevators) > 0
    /\ floorRequests # <<>>
    /\ \E e \in DOMAIN destinationQueue : destinationQueue[e] = <<>>
    /\ \E e \in DOMAIN destinationQueue : destinationQueue[e] # <<>>

\* C16 (idle before the first update): an idle event handled while no
\* elevator is cached makes no call and leaves the pending requests, and
\* their order, as they are; update leaves them pending; and an idle event
\* handled once the elevators are cached, with requests pending, sends the
\* elevator to a pending floor: to the floor it stands at when that floor
\* is pending.
IdleBeforeFirstUpdate ==
    /\ [][\A e \in ElevatorIds : (IdleStep(e) /\ Len(elevators) = 0) =>
              calls' = <<>> /\ floorRequests' = floorRequests]_vars
    /\ [][\A dt \in DtValues : UpdateStep(dt) =>
              floorRequests' = floorRequests]_vars
    /\ [][\A e \in ElevatorIds : (IdleRan(e) /\ floorRequests # <<>>) =>
              /\ Len(calls') = 1
              /\ Named(calls'[1])
              /\ FloorOf(calls'[1]) \in PendingFloors(floorRequests)
              /\ currentFloor[e] \in PendingFloors(floorRequests)
                    => FloorOf(calls'[1]) = currentFloor[e]]_vars

\* An idle event was handled with no elevator cached and two calls
\* pending, in an order the handler's sort would have changed.
IdleBeforeUpdateWitness ==
    /\ delivered = "idle"
    /\ Len(elevators) = 0
    /\ calls = <<>>
    /\ Len(floorRequests) = MaxRequests
    /\ \E e \in ElevatorIds : ArraySort(floorRequests, currentFloor[e]) # floorRequests

\* C15 (draining liveness): with no further floor call and idle events
\* kept being delivered to a controller whose elevators are cached, every
\* pending floor is eventually passed to goToFloor by an idle event, and
\* the pending requests eventually become and stay empty.
Commanded(f) ==
    /\ delivered = "idle"
    /\ \E i \in 1 .. Len(calls) : Named(calls[i]) /\ FloorOf(calls[i]) = f

DrainingLiveness ==
    /\ \A f \in FloorIds : (f \in PendingFloors(floorRequests)) ~> Commanded(f)
    /\ <>[](floorRequests = <<>>)

====
